---- MODULE Spec2Model ----
(***************************************************************************)
(* Model of adlframework/datasource.py: the DataSource batching engine.    *)
(*                                                                         *)
(* A data source holds a shuffled list of entities and a cursor            *)
(* (list_pointer).  With workers = 1, next() samples the entities inline.  *)
(* With workers > 1, one filler process pushes entities into a bounded     *)
(* entity queue, `workers` sample workers turn entities into samples and   *)
(* push them into a bounded sample queue, and next() pulls from it.        *)
(* Each started process owns a copy of the data source (fork), so the      *)
(* filler has its own entity list and cursor.                              *)
(***************************************************************************)
EXTENDS Integers, Sequences, FiniteSets, TLC

(***************************************************************************)
(* Bounds of the model.                                                    *)
(***************************************************************************)
NumEntities == 3     \* entities in the store of a single-worker data source
MultiEntities == 2   \* entities in the store of a multi-worker data source
MaxBatch == 2        \* largest batch size a call of next() asks for
MaxWorkers == 2      \* largest worker count
MaxQueue == 1        \* largest queue_size
MaxEpochCount == 1   \* the count of completed epochs saturates here
MaxChainLen == 3     \* longest controller chain of the chain model
MaxStore == 4        \* largest store of the split model
MaxPrefilters == 2   \* longest prefilter list of the construction model
MaxMembers == 2      \* most members of the union given to +
MaxAppended == 2     \* most items the model lets + append to a list
PercentDen == 4      \* split_percent ranges over k / PercentDen

(***************************************************************************)
(* Program constants.                                                      *)
(***************************************************************************)
max_mem_percent == 95    \* max_mem_percent=.95, as a percentage

\* values of psutil.virtual_memory().percent the model draws from
MemLevels == {95, 99}

\* Python's None, for the optional batch_size argument and queue_size
None == 0 - 1

VARIABLES
    workers,        \* self.workers
    queue_size,     \* maxsize of both queues (None with one worker)
    controllers,    \* self.controllers: sequence of controller kinds
    bad,            \* entities whose get_sample() raises
    batch_size,     \* self.batch_size
    entities,       \* self._entities of the caller's process
    list_pointer,   \* self.list_pointer of the caller's process
    data,           \* entity id -> whether the entity has its data attribute
    pc,             \* position of the caller: "idle", "loop", "failed"
    b,              \* local batch_size of the running call of next()
    batch,          \* local batch of the running call of next()
    ret,            \* value the call of next() returned, empty until it returns
    err,            \* exception that ended the last call, "" if none
    entity_queue,   \* self.entity_queue
    sample_queue,   \* self.sample_queue
    f_pc,           \* position of the filler: "off", "check", "put", "done"
    f_entities,     \* self._entities of the filler's process
    f_ptr,          \* self.list_pointer of the filler's process
    w_pc,           \* worker -> "get", "put", "crashed"
    w_sample,       \* worker -> the sample it is about to put
    last,           \* history: what the last iteration of next() did
    drawn,          \* history: entities next() sampled inline since the last reset
    f_pushed,       \* history: entities the filler pushed in this epoch
    f_epochs,       \* history: epochs the filler completed (saturating)
    f_epoch_ok,     \* history: every completed epoch was a permutation
    ch_pc,          \* chain model: "off", "ready", "done"
    ch_sample,      \* chain model: the sample given to process_sample
    ch_result,      \* chain model: what process_sample did with it
    sp_pc,          \* split model: "off", "ready", "done"
    ds,             \* split model: the store given to split, as it was
    split_percent,  \* split model: numerator k of split_percent = k / PercentDen
    ds1,            \* split model: first store returned
    ds2,            \* split model: second store returned
    python,         \* major version of the interpreter that runs the module
    fi_pc,          \* id model: "off", "ready", "saved", "done", "TypeError"
    fi_s,           \* id model: the entity list of the store S that saves its ids
    fi_t,           \* id model: the store T that filter_ids is called on
    fi_file,        \* id model: the lines save_ids wrote
    co_pc,          \* construction model: "off", "ready", "ok" or the error raised
    co_args,        \* construction model: the arguments of DataSource(...)
    co_obj,         \* construction model: the fields of the object constructed
    co_started,     \* construction model: the processes __init__ started
    ad_pc,          \* + model: "off", "ready", "extend", "done", "failed"
    ad_other,       \* + model: kind of the right operand
    ad_dss,         \* + model: other_dsa.datasources, the list of the union given
    ad_result,      \* + model: the member list of the union returned
    ad_err,         \* + model: the exception + raised, "" if none
    sh_pc,          \* split of a live store: "off", "ready", "split"
    sh_self,        \* which store next() runs on: 0 unsplit, 1 or 2 after the split
    sh_other        \* _entities and list_pointer of the other store of the split

config_vars == << workers, queue_size, controllers, bad, batch_size >>
caller_vars == << entities, list_pointer, data, pc, b, batch, ret, err >>
filler_vars == << f_pc, f_entities, f_ptr >>
worker_vars == << w_pc, w_sample >>
caller_hist == << last, drawn >>
filler_hist == << f_pushed, f_epochs, f_epoch_ok >>
chain_vars == << ch_pc, ch_sample, ch_result >>
split_vars == << sp_pc, ds, split_percent, ds1, ds2 >>
ids_vars == << python, fi_pc, fi_s, fi_t, fi_file >>
cons_vars == << co_pc, co_args, co_obj, co_started >>
add_vars == << ad_pc, ad_other, ad_dss, ad_result, ad_err >>
shared_vars == << sh_pc, sh_self, sh_other >>
extra_vars == << ids_vars, cons_vars, add_vars, shared_vars >>
aux_vars == << chain_vars, split_vars, extra_vars >>

vars == << workers, queue_size, controllers, bad, batch_size,
           entities, list_pointer, data, pc, b, batch, ret, err,
           entity_queue, sample_queue, f_pc, f_entities, f_ptr, w_pc, w_sample,
           last, drawn, f_pushed, f_epochs, f_epoch_ok,
           ch_pc, ch_sample, ch_result, sp_pc, ds, split_percent, ds1, ds2,
           python, fi_pc, fi_s, fi_t, fi_file,
           co_pc, co_args, co_obj, co_started,
           ad_pc, ad_other, ad_dss, ad_result, ad_err,
           sh_pc, sh_self, sh_other >>

(***************************************************************************)
(* Helpers on sequences.                                                   *)
(***************************************************************************)
Range(s) == { s[i] : i \in 1..Len(s) }

Perms(S) == { p \in [1..Cardinality(S) -> S] : Range(p) = S }

SeqsUpTo(S, n) == UNION { [1..k -> S] : k \in 0..n }

Min(x, y) == IF x < y THEN x ELSE y

NoDuplicates(s) == \A i, j \in 1..Len(s) : i # j => s[i] # s[j]

(***************************************************************************)
(* Python values that flow through the controller chain: the booleans and  *)
(* (data, label) samples.  The data of a sample is the id of the entity    *)
(* that produced it.                                                       *)
(***************************************************************************)
PyTrue == [tag |-> "bool", d |-> 1, l |-> 0]
PyFalse == [tag |-> "bool", d |-> 0, l |-> 0]
Raised == [tag |-> "raise", d |-> 0, l |-> 0]
Sample(d, l) == [tag |-> "sample", d |-> d, l |-> l]

\* truth value of a Python object: False is falsy, a (data, label) tuple is truthy
Truthy(v) == ~(v.tag = "bool" /\ v.d = 0)

(***************************************************************************)
(* Controllers.  A controller is a callable (Sample) -> Sample | bool; the *)
(* kinds below are the behaviours the model draws from.                    *)
(***************************************************************************)
ControllerKinds == {"accept", "reject", "relabel", "drop_labelled", "reject_odd", "raise"}

Controller(kind, sample) ==
    CASE kind = "accept" -> PyTrue
      [] kind = "reject" -> PyFalse
      [] kind = "relabel" -> Sample(sample.d, 1 - sample.l)
      [] kind = "drop_labelled" -> IF sample.l = 1 THEN PyFalse ELSE sample
      [] kind = "reject_odd" -> IF sample.d % 2 = 1 THEN PyFalse ELSE PyTrue
      [] kind = "raise" -> Raised

\* line 150: sample = sample if tmp == True else tmp
KeepOrReplaceSwapped(sample, tmp) == IF tmp = PyTrue THEN tmp ELSE sample
KeepOrReplace(sample, tmp) == IF tmp = PyTrue THEN sample ELSE tmp

\* line 151: if sample == False
IsRejectNever(sample) == FALSE
IsReject(sample) == sample = PyFalse

(***************************************************************************)
(* process_sample: the loop over self.controllers.  The result records the *)
(* returned value (out), whether a controller raised, and the controllers  *)
(* invoked, each with its argument and its return value.                   *)
(***************************************************************************)
RECURSIVE process_loop(_, _, _, _)
process_loop(ctrls, i, sample, calls) ==
    IF i > Len(ctrls)
    THEN [out |-> sample, raised |-> FALSE, calls |-> calls]
    ELSE LET tmp == Controller(ctrls[i], sample)
             called == Append(calls, [i |-> i, arg |-> sample, ret |-> tmp])
         IN  IF tmp = Raised
             THEN [out |-> Raised, raised |-> TRUE, calls |-> called]
             ELSE LET s2 == KeepOrReplace(sample, tmp)
                  IN  IF IsReject(s2)
                      THEN [out |-> PyFalse, raised |-> FALSE, calls |-> called]
                      ELSE process_loop(ctrls, i + 1, s2, called)

process_sample(ctrls, sample) == process_loop(ctrls, 1, sample, << >>)

(***************************************************************************)
(* Entities.  An entity is known by its unique id; get_sample() returns    *)
(* the sample (id, label 0) and populates the raw-data field, or raises.   *)
(***************************************************************************)
EntityIds == 1..NumEntities

Nothing == [tag |-> "none", d |-> 0, l |-> 0]

get_sample(e, raising) == IF e \in raising THEN Raised ELSE Sample(e, 0)

\* entity.get_sample() followed by self.process_sample(sample), inside the try
Materialize(e, raising, ctrls) ==
    LET s == get_sample(e, raising)
    IN  IF s = Raised
        THEN [out |-> Raised, raised |-> TRUE, calls |-> << >>]
        ELSE process_sample(ctrls, s)

\* lines 109 and 172: if sample
AcceptsAll(sample) == TRUE
Accepts(sample) == Truthy(sample)

\* lines 111 and 176: except Exception as e
Catches(exc) == exc = Raised

\* line 166: while len(batch) < batch_size
BatchIncompleteShort(bt, size) == Len(bt) + 1 < size
BatchIncomplete(bt, size) == Len(bt) < size

\* line 164: batch_size = batch_size if batch_size != None else self.batch_size
EffectiveBatchSize(arg, configured) == IF arg # None THEN arg ELSE configured

\* line 194: data, labels = zip(*batch)
Transpose(bt) == [data   |-> [i \in 1..Len(bt) |-> bt[i].d],
                  labels |-> [i \in 1..Len(bt) |-> bt[i].l]]

\* line 190: mem.percent/100.0 > self.max_mem_percent
OverMemory(percent) == percent > max_mem_percent

\* line 191: del entity.data raises AttributeError unless the entity has
\* the attribute
HasAttribute(attrs, entity) == attrs[entity]

\* lines 135-138: shuffle(self._entities); self.list_pointer = 0
reset_queue(ents) ==
    { [entities |-> p, list_pointer |-> 0] : p \in Perms(Range(ents)) }

\* lines 82-83, 93, 94 and 110: a Queue(queue_size) is full once it holds
\* queue_size items; full() reports it and put() blocks on it
QueueFullNever(queue, maxsize) == FALSE
QueueFull(queue, maxsize) == Len(queue) >= maxsize

\* line 168: if self.workers == 1
SingleWorkerAlways(w) == TRUE
SingleWorker(w) == w = 1

\* lines 96 and 185: if self.list_pointer >= len(self._entities)
AtEndEarly(ptr, ents) == ptr + 1 >= Len(ents)
AtEnd(ptr, ents) == ptr >= Len(ents)

\* history record of a call that has run no iteration yet
NoIteration == [e |-> 0, outcome |-> "none", mem |-> 0, released |-> 0, others |-> {}]

\* entities whose raw-data field differs between two states, except `entity`
OthersChanged(before, after, entity) ==
    { x \in DOMAIN before : x # entity /\ before[x] # after[x] }

\* the controller chains the pipeline model draws from
PipelineChains == { << >>, <<"reject">>, <<"reject_odd">>, <<"raise">> }

(***************************************************************************)
(* Construction (lines 40-90).  The entity list is shuffled; with more     *)
(* than one worker the queues are created and the filler and the sample    *)
(* workers are started, each on its own copy of the data source.           *)
(***************************************************************************)
\* the chain model and the split model are not running
ChainOff ==
    /\ ch_pc = "off"
    /\ ch_sample = Nothing
    /\ ch_result = [out |-> Nothing, raised |-> FALSE, calls |-> << >>]

NoStore == [entities |-> << >>, list_pointer |-> 0]

SplitOff ==
    /\ sp_pc = "off"
    /\ ds = NoStore
    /\ split_percent = 0
    /\ ds1 = NoStore
    /\ ds2 = NoStore

\* the module runs under Python 2 or under Python 3 (line 241: "Wrapper for
\* python 3")
PythonVersions == {2, 3}

\* the id model is not running
IdsOff ==
    /\ fi_pc = "off"
    /\ fi_s = << >>
    /\ fi_t = NoStore
    /\ fi_file = << >>

\* no data source object, no process started
NoObject == [entities |-> << >>, list_pointer |-> 0, workers |-> 0, queue_size |-> None]
NoneStarted == [filler |-> 0, workers |-> 0]

NoArgs == [controllers_is_list |-> TRUE, prefilters_is_list |-> TRUE, workers |-> 1,
           queue_size |-> None, retrieval |-> "none", listed |-> 0,
           prefilters |-> << >>]

\* the construction model is not running
ConsOff ==
    /\ co_pc = "off"
    /\ co_args = NoArgs
    /\ co_obj = NoObject
    /\ co_started = NoneStarted

\* the + model is not running
AddOff ==
    /\ ad_pc = "off"
    /\ ad_other = "datasource"
    /\ ad_dss = << >>
    /\ ad_result = << >>
    /\ ad_err = ""

\* no live store has been split
SharedOff ==
    /\ sh_pc = "off"
    /\ sh_self = 0
    /\ sh_other = NoStore

\* the models of the operations that do not depend on the interpreter (no
\* prefilter, no filter_ids) run under one version
ExtrasOff ==
    /\ python = 3
    /\ IdsOff
    /\ ConsOff
    /\ AddOff
    /\ SharedOff

\* the data attribute of a new entity: set by get_sample() only (absent
\* until then), or set to None by the constructor of the entity
EntityKinds == {"lazy", "preset"}

NewEntityData(kind) == [e \in EntityIds |-> kind = "preset"]

\* lines 51-61 and 64-74: the fields after construction of a store of the
\* entities `ids`, the list shuffled (line 74)
ShuffledStore(ids) ==
    /\ batch_size = MaxBatch
    /\ entities \in Perms(ids)
    /\ list_pointer = 0
    /\ data \in { NewEntityData(kind) : kind \in EntityKinds }

\* the store of the pipeline model
InitStore == ShuffledStore(IF workers = 1 THEN EntityIds ELSE 1..MultiEntities)

\* no call of next() has been made
InitCaller ==
    /\ pc = "idle"
    /\ b = 0
    /\ batch = << >>
    /\ ret = Transpose(<< >>)
    /\ err = ""
    /\ last = NoIteration
    /\ drawn = << >>

\* lines 80-86: the queues are empty and the processes are at their first line
InitPipeline ==
    /\ entity_queue = << >>
    /\ sample_queue = << >>
    /\ f_pc = IF workers > 1 THEN "check" ELSE "off"
    /\ f_entities = entities
    /\ f_ptr = 0
    /\ w_pc = [w \in 1..(IF workers > 1 THEN workers ELSE 0) |-> "get"]
    /\ w_sample = [w \in 1..(IF workers > 1 THEN workers ELSE 0) |-> Nothing]
    /\ f_pushed = << >>
    /\ f_epochs = 0
    /\ f_epoch_ok = TRUE

Init ==
    /\ workers \in 1..MaxWorkers
    /\ queue_size \in IF workers = 1 THEN {None} ELSE 1..MaxQueue
    /\ controllers \in PipelineChains
    /\ bad \in SUBSET {1}
    /\ InitStore
    /\ InitCaller
    /\ InitPipeline
    /\ ChainOff
    /\ SplitOff
    /\ ExtrasOff

(***************************************************************************)
(* next(batch_size=None), lines 155-198.                                   *)
(***************************************************************************)
\* lines 164-165: the local variables of a call that starts
StartCall(arg) ==
    /\ pc \in {"idle", "failed"}
    /\ pc' = "loop"
    /\ b' = EffectiveBatchSize(arg, batch_size)
    /\ batch' = << >>
    /\ ret' = Transpose(<< >>)
    /\ err' = ""
    /\ last' = NoIteration

\* lines 155-165: next(batch_size) is called
next_call(arg) ==
    /\ StartCall(arg)
    /\ UNCHANGED << aux_vars, config_vars, entities, list_pointer, data,
                    entity_queue, sample_queue, filler_vars, worker_vars,
                    drawn, filler_hist >>

\* lines 167: self._entities[self.list_pointer] with the cursor past the end
next_index_error ==
    /\ pc = "loop"
    /\ BatchIncomplete(batch, b)
    /\ list_pointer >= Len(entities)
    /\ pc' = "failed"
    /\ err' = "IndexError"
    /\ UNCHANGED << aux_vars, config_vars, entities, list_pointer, data, b, batch, ret,
                    entity_queue, sample_queue, filler_vars, worker_vars,
                    caller_hist, filler_hist >>

\* lines 166-192 with workers == 1: one iteration of the while loop
next_iter_single(percent) ==
    /\ pc = "loop"
    /\ SingleWorker(workers)
    /\ BatchIncomplete(batch, b)
    /\ list_pointer < Len(entities)
    /\ LET entity == entities[list_pointer + 1]
           r == Materialize(entity, bad, controllers)
           \* get_sample() populates the raw data unless it raises
           loaded == IF entity \in bad THEN data ELSE [data EXCEPT ![entity] = TRUE]
           outcome == IF r.raised THEN "raised"
                      ELSE IF Accepts(r.out) THEN "accepted" ELSE "rejected"
           \* lines 176-179: the except clause swallows the exception, or not
           escapes == r.raised /\ ~Catches(r.out)
           \* line 186: reset_queue() names no local and no global of the
           \* module (the method is self.reset_queue): NameError
           name_error == ~escapes /\ AtEnd(list_pointer + 1, entities)
           \* lines 189-191: reached only if nothing was raised before
           evict == ~escapes /\ ~name_error /\ OverMemory(percent)
           \* line 191: del entity.data of an entity without the attribute
           attr_error == evict /\ ~HasAttribute(loaded, entity)
       IN  /\ drawn' = Append(drawn, entity)
           /\ batch' = IF ~escapes /\ outcome = "accepted"
                       THEN Append(batch, r.out) ELSE batch
           /\ list_pointer' = IF escapes THEN list_pointer ELSE list_pointer + 1
           /\ pc' = IF escapes \/ name_error \/ attr_error THEN "failed" ELSE "loop"
           /\ err' = IF escapes THEN "SampleError"
                     ELSE IF name_error THEN "NameError"
                     ELSE IF attr_error THEN "AttributeError" ELSE ""
           /\ data' = IF evict THEN [loaded EXCEPT ![entity] = FALSE] ELSE loaded
           /\ last' = [e |-> entity, outcome |-> outcome,
                       mem |-> percent,
                       released |-> IF evict /\ ~attr_error THEN entity ELSE 0,
                       others |-> OthersChanged(data, data', entity)]
    /\ UNCHANGED << aux_vars, config_vars, entities, b, ret, entity_queue, sample_queue,
                    filler_vars, worker_vars, filler_hist >>

\* lines 166-192 with workers > 1: one iteration of the while loop
next_iter_multi(percent) ==
    /\ pc = "loop"
    /\ ~SingleWorker(workers)
    /\ BatchIncomplete(batch, b)
    /\ list_pointer < Len(entities)
    /\ sample_queue # << >>
    /\ LET entity == entities[list_pointer + 1]
           sample == Head(sample_queue)
           \* line 191: del entity.data of an entity without the attribute
           attr_error == OverMemory(percent) /\ ~HasAttribute(data, entity)
       IN  /\ sample_queue' = Tail(sample_queue)
           /\ batch' = Append(batch, sample)
           /\ pc' = IF attr_error THEN "failed" ELSE "loop"
           /\ err' = IF attr_error THEN "AttributeError" ELSE ""
           /\ data' = IF OverMemory(percent)
                      THEN [data EXCEPT ![entity] = FALSE]
                      ELSE data
           /\ last' = [e |-> sample.d, outcome |-> "accepted", mem |-> percent,
                       released |-> IF OverMemory(percent) /\ ~attr_error
                                    THEN entity ELSE 0,
                       others |-> OthersChanged(data, data', entity)]
    /\ UNCHANGED << aux_vars, config_vars, entities, list_pointer, b, ret,
                    entity_queue, filler_vars, worker_vars, drawn, filler_hist >>

\* lines 194-198: the loop is over; transpose the batch and return
next_return ==
    /\ pc = "loop"
    /\ ~BatchIncomplete(batch, b)
    /\ IF batch = << >>
       THEN \* zip(*[]) is empty: the unpacking into data, labels fails
            /\ pc' = "failed"
            /\ err' = "ValueError"
            /\ UNCHANGED ret
       ELSE /\ pc' = "idle"
            /\ ret' = Transpose(batch)
            /\ UNCHANGED err
    /\ UNCHANGED << aux_vars, config_vars, entities, list_pointer, data, b, batch,
                    entity_queue, sample_queue, filler_vars, worker_vars,
                    caller_hist, filler_hist >>

\* lines 135-138: the caller calls reset_queue() between two calls of next()
reset_queue_call ==
    /\ pc \in {"idle", "failed"}
    /\ \E q \in reset_queue(entities) :
           /\ entities' = q.entities
           /\ list_pointer' = q.list_pointer
    /\ drawn' = << >>
    /\ last' = NoIteration
    /\ UNCHANGED << aux_vars, config_vars, data, pc, b, batch, ret, err,
                    entity_queue, sample_queue, filler_vars, worker_vars,
                    filler_hist >>

(***************************************************************************)
(* async_fill_queue, lines 92-97: the filler process.                      *)
(***************************************************************************)
\* line 93: while not self.sample_queue.full()
filler_check ==
    /\ f_pc = "check"
    /\ f_pc' = IF QueueFull(sample_queue, queue_size) THEN "done" ELSE "put"
    /\ UNCHANGED << aux_vars, config_vars, caller_vars, entity_queue, sample_queue,
                    f_entities, f_ptr, worker_vars, caller_hist, filler_hist >>

\* lines 94-97: put the entity at the cursor (blocks while the entity queue
\* is full), advance the cursor, reshuffle and reset it at the end
filler_put ==
    /\ f_pc = "put"
    /\ ~QueueFull(entity_queue, queue_size)
    /\ entity_queue' = Append(entity_queue, f_entities[f_ptr + 1])
    /\ f_pc' = "check"
    /\ IF AtEnd(f_ptr + 1, f_entities)
       THEN /\ \E q \in reset_queue(f_entities) :
                   /\ f_entities' = q.entities
                   /\ f_ptr' = q.list_pointer
            /\ f_pushed' = << >>
            /\ f_epochs' = Min(f_epochs + 1, MaxEpochCount)
            /\ f_epoch_ok' = ( /\ f_epoch_ok
                               /\ Len(f_pushed) + 1 = Len(f_entities)
                               /\ Range(Append(f_pushed, f_entities[f_ptr + 1]))
                                     = Range(f_entities) )
       ELSE /\ f_ptr' = f_ptr + 1
            /\ f_pushed' = Append(f_pushed, f_entities[f_ptr + 1])
            /\ UNCHANGED << f_entities, f_epochs, f_epoch_ok >>
    /\ UNCHANGED << aux_vars, config_vars, caller_vars, sample_queue, worker_vars,
                    caller_hist >>

(***************************************************************************)
(* async_add_to_sample_queue, lines 99-114: a sample worker.               *)
(***************************************************************************)
\* lines 106-109: get an entity (blocks while the entity queue is empty),
\* materialize and process its sample
worker_get(w) ==
    /\ w_pc[w] = "get"
    /\ entity_queue # << >>
    /\ entity_queue' = Tail(entity_queue)
    /\ LET r == Materialize(Head(entity_queue), bad, controllers)
       IN  IF r.raised
           THEN /\ w_pc' = [w_pc EXCEPT ![w] = IF Catches(r.out) THEN "get" ELSE "crashed"]
                /\ UNCHANGED w_sample
           ELSE IF Accepts(r.out)
                THEN /\ w_pc' = [w_pc EXCEPT ![w] = "put"]
                     /\ w_sample' = [w_sample EXCEPT ![w] = r.out]
                ELSE UNCHANGED << w_pc, w_sample >>
    /\ UNCHANGED << aux_vars, config_vars, caller_vars, sample_queue, filler_vars,
                    caller_hist, filler_hist >>

\* line 110: self.sample_queue.put(sample), blocks while the queue is full
worker_put(w) ==
    /\ w_pc[w] = "put"
    /\ ~QueueFull(sample_queue, queue_size)
    /\ sample_queue' = Append(sample_queue, w_sample[w])
    /\ w_pc' = [w_pc EXCEPT ![w] = "get"]
    /\ w_sample' = [w_sample EXCEPT ![w] = Nothing]
    /\ UNCHANGED << aux_vars, config_vars, caller_vars, entity_queue, filler_vars,
                    caller_hist, filler_hist >>

BatchArgs == {None} \cup (0..MaxBatch)

Next ==
    \/ \E arg \in BatchArgs : next_call(arg)
    \/ next_index_error
    \/ \E percent \in MemLevels : next_iter_single(percent)
    \/ \E percent \in MemLevels : next_iter_multi(percent)
    \/ next_return
    \/ reset_queue_call
    \/ filler_check
    \/ filler_put
    \/ \E w \in DOMAIN w_pc : worker_get(w)
    \/ \E w \in DOMAIN w_pc : worker_put(w)

Spec == Init /\ [][Next]_vars

(***************************************************************************)
(* The controller chain on its own: process_sample applied to one sample   *)
(* under every chain of at most MaxChainLen controllers.                   *)
(***************************************************************************)
Chains == SeqsUpTo(ControllerKinds, MaxChainLen)

Samples == { Sample(e, l) : e \in EntityIds, l \in {0, 1} }

InitChain ==
    /\ workers = 1
    /\ queue_size = None
    /\ controllers \in Chains
    /\ bad = {}
    /\ InitStore
    /\ InitCaller
    /\ InitPipeline
    /\ SplitOff
    /\ ExtrasOff
    /\ ch_pc = "ready"
    /\ ch_sample \in Samples
    /\ ch_result = [out |-> Nothing, raised |-> FALSE, calls |-> << >>]

apply_chain ==
    /\ ch_pc = "ready"
    /\ ch_pc' = "done"
    /\ ch_result' = process_sample(controllers, ch_sample)
    /\ UNCHANGED << config_vars, caller_vars, entity_queue, sample_queue,
                    filler_vars, worker_vars, caller_hist, filler_hist,
                    ch_sample, split_vars, extra_vars >>

NextChain == apply_chain

SpecChain == InitChain /\ [][NextChain]_vars

(***************************************************************************)
(* split(ds1, split_percent), lines 217-232, on stores of 1..MaxStore      *)
(* entities with split_percent = k / PercentDen.                           *)
(***************************************************************************)
\* line 226: int(len(ds1._entities) * split_percent)
BreakOffCeil(n, k) == (n * k + PercentDen - 1) \div PercentDen
BreakOff(n, k) == (n * k) \div PercentDen

\* line 231: ds1._entities[:break_off]
SliceTo(s, i) == SubSeq(s, 1, i)

\* line 230: ds1._entities[break_off:]
SliceFromNext(s, i) == SubSeq(s, i + 2, Len(s))
SliceFrom(s, i) == SubSeq(s, i + 1, Len(s))

InitSplit ==
    /\ workers = 1
    /\ queue_size = None
    /\ controllers = << >>
    /\ bad = {}
    /\ InitStore
    /\ InitCaller
    /\ InitPipeline
    /\ ChainOff
    /\ ExtrasOff
    /\ sp_pc = "ready"
    /\ \E n \in 1..MaxStore :
          /\ ds \in { [entities |-> p, list_pointer |-> c] :
                         p \in Perms(1..n), c \in 0..n }
    /\ split_percent \in 0..PercentDen
    /\ ds1 = ds
    /\ ds2 = NoStore

split ==
    /\ sp_pc = "ready"
    /\ sp_pc' = "done"
    /\ LET break_off == BreakOff(Len(ds1.entities), split_percent)
       IN  \E shuffled \in Perms(Range(ds1.entities)) :
               \* ds2 = copy.copy(ds1) keeps every other field of ds1
               /\ ds2' = [ds1 EXCEPT !.entities = SliceFrom(shuffled, break_off)]
               /\ ds1' = [ds1 EXCEPT !.entities = SliceTo(shuffled, break_off)]
    /\ UNCHANGED << config_vars, caller_vars, entity_queue, sample_queue,
                    filler_vars, worker_vars, caller_hist, filler_hist,
                    chain_vars, ds, split_percent, extra_vars >>

NextSplit == split

SpecSplit == InitSplit /\ [][NextSplit]_vars

(***************************************************************************)
(* save_ids and filter_ids, lines 200-215.  An entity is known by its      *)
(* unique_id, which is an int (the entity of the no-retrieval mode has id  *)
(* 0, line 66) or a string; save_ids writes str(unique_id), one per line.  *)
(***************************************************************************)
IdKinds == {"int", "str"}

UniqueId(kind, v) == [kind |-> kind, v |-> v]

\* line 215: str(x.unique_id); the text of an int is a string, never an int
Str(id) == [kind |-> "str", v |-> id.v]

\* line 215: the lines of '\n'.join([str(x.unique_id) for x in self._entities])
IdLines(ents) == [i \in 1..Len(ents) |-> Str(ents[i])]

\* lines 132 and 208: filter(function, list) is a list under Python 2 and a
\* lazy filter object, which has no len(), under Python 3
FilterIsLazy(version) == version >= 3

\* lines 204-208: filter(in_set, self._entities) with id_set = set(id_list)
FilterByIds(ents, id_list) ==
    LET id_set == Range(id_list)
        in_set(e) == e \in id_set
    IN  SelectSeq(ents, in_set)

\* the lists without repetition over the entities of a store
SubLists(ents) == { q \in SeqsUpTo(Range(ents), Len(ents)) : NoDuplicates(q) }

InitIds ==
    /\ workers = 1
    /\ queue_size = None
    /\ controllers = << >>
    /\ bad = {}
    /\ InitStore
    /\ InitCaller
    /\ InitPipeline
    /\ ChainOff
    /\ SplitOff
    /\ python \in PythonVersions
    /\ fi_pc = "ready"
    /\ \E kind \in IdKinds :
          fi_t \in { [entities |-> [i \in EntityIds |-> UniqueId(kind, p[i])],
                      list_pointer |-> c] :
                        p \in Perms(EntityIds), c \in 0..(NumEntities - 1) }
    /\ fi_s \in SubLists(fi_t.entities)
    /\ fi_file = << >>
    /\ ConsOff
    /\ AddOff
    /\ SharedOff

\* lines 211-215: S.save_ids(name)
save_ids ==
    /\ fi_pc = "ready"
    /\ fi_pc' = "saved"
    /\ fi_file' = IdLines(fi_s)
    /\ UNCHANGED << config_vars, caller_vars, entity_queue, sample_queue,
                    filler_vars, worker_vars, caller_hist, filler_hist,
                    chain_vars, split_vars, python, fi_s, fi_t, cons_vars, add_vars,
                    shared_vars >>

\* lines 200-209: T.filter_ids(id_list) with the lines of the file as id_list;
\* line 209 takes len() of the filtered entities
filter_ids ==
    /\ fi_pc = "saved"
    /\ fi_t' = [fi_t EXCEPT !.entities = FilterByIds(fi_t.entities, fi_file)]
    /\ fi_pc' = IF FilterIsLazy(python) THEN "TypeError" ELSE "done"
    /\ UNCHANGED << config_vars, caller_vars, entity_queue, sample_queue,
                    filler_vars, worker_vars, caller_hist, filler_hist,
                    chain_vars, split_vars, python, fi_s, fi_file, cons_vars, add_vars,
                    shared_vars >>

NextIds ==
    \/ save_ids
    \/ filter_ids

SpecIds == InitIds /\ [][NextIds]_vars

(***************************************************************************)
(* The constructor, lines 40-90, as one operation on its arguments.        *)
(***************************************************************************)
\* the behaviours of the prefilter predicates the model draws from
PrefilterKinds == {"keep_all", "drop_all", "keep_odd"}

Prefilter(kind, e) ==
    CASE kind = "keep_all" -> TRUE
      [] kind = "drop_all" -> FALSE
      [] kind = "keep_odd" -> e % 2 = 1

\* lines 64-73: one entity of id 0 without a retrieval, else one entity per
\* id of the cache or of retrieval.list()
Loaded(retrieval, listed) ==
    IF retrieval = "none" THEN << 0 >> ELSE [i \in 1..listed |-> i]

\* line 132: self._entities = filter(pf, tqdm(self._entities)), as a list
FilterBy(kind, ents) ==
    LET pf(e) == Prefilter(kind, e)
    IN  SelectSeq(ents, pf)

\* lines 118-133: the loop over self.prefilters; under a lazy filter the
\* len() of line 133 raises in the first pass
RECURSIVE prefilter_loop(_, _, _, _)
prefilter_loop(pfs, i, ents, version) ==
    IF i > Len(pfs)
    THEN [entities |-> ents, err |-> ""]
    ELSE IF FilterIsLazy(version)
         THEN [entities |-> FilterBy(pfs[i], ents), err |-> "TypeError"]
         ELSE prefilter_loop(pfs, i + 1, FilterBy(pfs[i], ents), version)

\* lines 44-47: the assertions on the arguments
ArgsAccepted(a) ==
    /\ a.controllers_is_list
    /\ a.prefilters_is_list
    /\ a.workers > 0
    /\ ~(a.workers = 1 /\ a.queue_size # None)

\* lines 82-83: Queue(None) is an unbounded queue under Python 2; under
\* Python 3 the constructor of the queue compares maxsize with 0 and raises
QueueRejectsNone(version) == version >= 3

\* lines 80-86: the filler and `workers` sample workers are started
Started(w) == IF w > 1 THEN [filler |-> 1, workers |-> w] ELSE NoneStarted

\* lines 40-90 with the list shuffled into the order `shuffled`
Construct(a, version, shuffled) ==
    IF ~ArgsAccepted(a)
    THEN [pc |-> "AssertionError", obj |-> NoObject, started |-> NoneStarted]
    ELSE LET filtered == prefilter_loop(a.prefilters, 1, shuffled, version)
         IN  IF filtered.err # ""
             THEN [pc |-> filtered.err, obj |-> NoObject, started |-> NoneStarted]
             ELSE IF a.workers > 1 /\ a.queue_size = None /\ QueueRejectsNone(version)
             THEN [pc |-> "TypeError", obj |-> NoObject, started |-> NoneStarted]
             ELSE IF Len(filtered.entities) > 0
                  THEN [pc |-> "ok",
                        obj |-> [entities |-> filtered.entities, list_pointer |-> 0,
                                 workers |-> a.workers, queue_size |-> a.queue_size],
                        started |-> Started(a.workers)]
                  ELSE \* line 90 comes after lines 84-86
                       [pc |-> "AssertionError", obj |-> NoObject,
                        started |-> Started(a.workers)]

ConstructorArgs ==
    [controllers_is_list : BOOLEAN, prefilters_is_list : BOOLEAN,
     workers : (0 - 1)..MaxWorkers, queue_size : {None} \cup (1..MaxQueue),
     retrieval : {"none", "cache", "list"}, listed : 0..NumEntities,
     prefilters : SeqsUpTo(PrefilterKinds, MaxPrefilters)]

InitCons ==
    /\ workers = 1
    /\ queue_size = None
    /\ controllers = << >>
    /\ bad = {}
    /\ InitStore
    /\ InitCaller
    /\ InitPipeline
    /\ ChainOff
    /\ SplitOff
    /\ IdsOff
    /\ AddOff
    /\ SharedOff
    /\ python \in PythonVersions
    /\ co_pc = "ready"
    /\ co_args \in { a \in ConstructorArgs : a.retrieval = "none" => a.listed = 0 }
    /\ co_obj = NoObject
    /\ co_started = NoneStarted

construct ==
    /\ co_pc = "ready"
    /\ LET loaded == Loaded(co_args.retrieval, co_args.listed)
       IN  \E shuffled \in Perms(Range(loaded)) :
               LET r == Construct(co_args, python, shuffled)
               IN  /\ co_pc' = r.pc
                   /\ co_obj' = r.obj
                   /\ co_started' = r.started
    /\ UNCHANGED << config_vars, caller_vars, entity_queue, sample_queue,
                    filler_vars, worker_vars, caller_hist, filler_hist,
                    chain_vars, split_vars, ids_vars, add_vars, shared_vars,
                    co_args >>

NextCons == construct

SpecCons == InitCons /\ [][NextCons]_vars

(***************************************************************************)
(* self + other_dsa, lines 246-257.  A DataSourceUnion holds the list of   *)
(* its members in `datasources`.  With a union on the right, + extends     *)
(* that list by self: list.extend iterates self, and the iterator of a     *)
(* data source is the data source (line 238), whose items are the batches  *)
(* next() returns.                                                         *)
(***************************************************************************)
OperandKinds == {"datasource", "union", "other"}

\* the members m1..mk of a union of k data sources
Members(k) == [i \in 1..k |-> "member"]

\* DataSourceUnion(list): the union holds the list given
DataSourceUnion(list) == list

InitAdd ==
    /\ workers \in 1..MaxWorkers
    /\ queue_size \in IF workers = 1 THEN {None} ELSE 1..MaxQueue
    /\ controllers = << >>
    /\ bad = {}
    /\ InitStore
    /\ InitCaller
    /\ InitPipeline
    /\ ChainOff
    /\ SplitOff
    /\ python = 3
    /\ IdsOff
    /\ ConsOff
    /\ SharedOff
    /\ ad_pc = "ready"
    /\ ad_other \in OperandKinds
    /\ ad_dss \in IF ad_other = "union"
                  THEN { Members(k) : k \in 1..MaxMembers }
                  ELSE { << >> }
    /\ ad_result = << >>
    /\ ad_err = ""

\* lines 250-251: other_dsa is a data source
add_datasources ==
    /\ ad_pc = "ready"
    /\ ad_other = "datasource"
    /\ ad_pc' = "done"
    /\ ad_result' = DataSourceUnion(<< "self", "other" >>)
    /\ UNCHANGED << config_vars, caller_vars, entity_queue, sample_queue,
                    filler_vars, worker_vars, caller_hist, filler_hist,
                    chain_vars, split_vars, ids_vars, cons_vars, shared_vars,
                    ad_other, ad_dss, ad_err >>

\* lines 252-254: other_dsa is a union; dss.extend(self) takes iter(self)
\* and asks it for its first item, which is a call of self.next()
add_union ==
    /\ ad_pc = "ready"
    /\ ad_other = "union"
    /\ ad_pc' = "extend"
    /\ StartCall(None)
    /\ UNCHANGED << config_vars, entities, list_pointer, data,
                    entity_queue, sample_queue, filler_vars, worker_vars,
                    drawn, filler_hist,
                    chain_vars, split_vars, ids_vars, cons_vars, shared_vars,
                    ad_other, ad_dss, ad_result, ad_err >>

\* line 254: the call of next() returned a batch; extend appends it to the
\* list of the union and asks for the next item
extend_append ==
    /\ ad_pc = "extend"
    /\ pc = "idle"
    /\ Len(ad_dss) < MaxMembers + MaxAppended
    /\ ad_dss' = Append(ad_dss, "batch")
    /\ StartCall(None)
    /\ UNCHANGED << config_vars, entities, list_pointer, data,
                    entity_queue, sample_queue, filler_vars, worker_vars,
                    drawn, filler_hist,
                    chain_vars, split_vars, ids_vars, cons_vars, shared_vars,
                    ad_pc, ad_other, ad_result, ad_err >>

\* line 254: the call of next() raised; the exception leaves extend and +
extend_raise ==
    /\ ad_pc = "extend"
    /\ pc = "failed"
    /\ ad_pc' = "failed"
    /\ ad_err' = err
    /\ UNCHANGED << config_vars, caller_vars, entity_queue, sample_queue,
                    filler_vars, worker_vars, caller_hist, filler_hist,
                    chain_vars, split_vars, ids_vars, cons_vars, shared_vars,
                    ad_other, ad_dss, ad_result >>

\* lines 256-257: other_dsa is neither
add_other ==
    /\ ad_pc = "ready"
    /\ ad_other = "other"
    /\ ad_pc' = "failed"
    /\ ad_err' = "Exception"
    /\ UNCHANGED << config_vars, caller_vars, entity_queue, sample_queue,
                    filler_vars, worker_vars, caller_hist, filler_hist,
                    chain_vars, split_vars, ids_vars, cons_vars, shared_vars,
                    ad_other, ad_dss, ad_result >>

NextAdd ==
    \/ add_datasources
    \/ add_union
    \/ extend_append
    \/ extend_raise
    \/ add_other
    \/ \E percent \in MemLevels : next_iter_single(percent)
    \/ \E percent \in MemLevels : next_iter_multi(percent)
    \/ next_return
    \/ filler_check
    \/ filler_put
    \/ \E w \in DOMAIN w_pc : worker_get(w)
    \/ \E w \in DOMAIN w_pc : worker_put(w)

SpecAdd == InitAdd /\ [][NextAdd]_vars

(***************************************************************************)
(* split applied to a live data source, lines 217-232 with 80-86.  ds1 is  *)
(* the object given: it keeps its identity and the first slice.  ds2 is    *)
(* copy.copy(ds1), a shallow copy: it has the second slice and its own     *)
(* list_pointer, and it refers to the same entity_queue and sample_queue.  *)
(* The filler and the sample workers were started at construction on       *)
(* their own copies of the unsplit data source.  The variables entities    *)
(* and list_pointer are the fields of the store next() runs on, sh_other   *)
(* holds the fields of the other store.                                    *)
(***************************************************************************)
\* line 218: split_percent=.5, as a numerator over PercentDen
DefaultSplit == PercentDen \div 2

InitShared ==
    /\ workers \in 1..MaxWorkers
    /\ queue_size \in IF workers = 1 THEN {None} ELSE 1..MaxQueue
    /\ controllers = << >>
    /\ bad = {}
    /\ ShuffledStore(EntityIds)
    /\ InitCaller
    /\ InitPipeline
    /\ ChainOff
    /\ SplitOff
    /\ python = 3
    /\ IdsOff
    /\ ConsOff
    /\ AddOff
    /\ sh_pc = "ready"
    /\ sh_self = 0
    /\ sh_other = NoStore

\* lines 226-232: split(ds1, k / PercentDen) of a store on which next() has
\* not been called yet
split_live(k) ==
    /\ sh_pc = "ready"
    /\ pc \in {"idle", "failed"}
    /\ sh_pc' = "split"
    /\ sh_self' = 1
    /\ LET break_off == BreakOff(Len(entities), k)
       IN  \E shuffled \in Perms(Range(entities)) :
               /\ sh_other' = [entities |-> SliceFrom(shuffled, break_off),
                               list_pointer |-> list_pointer]
               /\ entities' = SliceTo(shuffled, break_off)
    /\ UNCHANGED << config_vars, list_pointer, data, pc, b, batch, ret, err,
                    entity_queue, sample_queue, filler_vars, worker_vars,
                    caller_hist, filler_hist,
                    chain_vars, split_vars, ids_vars, cons_vars, add_vars >>

\* lines 155-165: next(batch_size) is called on the other store of the split
next_call_other(arg) ==
    /\ sh_pc = "split"
    /\ StartCall(arg)
    /\ sh_self' = 3 - sh_self
    /\ entities' = sh_other.entities
    /\ list_pointer' = sh_other.list_pointer
    /\ sh_other' = [entities |-> entities, list_pointer |-> list_pointer]
    /\ UNCHANGED << config_vars, data, entity_queue, sample_queue,
                    filler_vars, worker_vars, drawn, filler_hist,
                    chain_vars, split_vars, ids_vars, cons_vars, add_vars, sh_pc >>

NextShared ==
    \/ split_live(DefaultSplit)
    \/ sh_pc = "split" /\ next_call(None)
    \/ next_call_other(None)
    \/ next_index_error
    \/ next_iter_single(max_mem_percent)
    \/ next_iter_multi(max_mem_percent)
    \/ next_return
    \/ filler_check
    \/ filler_put
    \/ \E w \in DOMAIN w_pc : worker_get(w)
    \/ \E w \in DOMAIN w_pc : worker_put(w)

SpecShared == InitShared /\ [][NextShared]_vars

(***************************************************************************)
(* Properties.                                                             *)
(***************************************************************************)
\* every sample that is batched, queued, or held by a worker for its put
InFlight ==
    Range(batch) \cup Range(sample_queue)
        \cup { w_sample[w] : w \in { x \in DOMAIN w_pc : w_pc[x] = "put" } }

\* C1: a call of next() that returns gives back exactly b data elements and
\* exactly b labels, b >= 1 being the batch size of the call, with one worker
\* and with several; it never returns a short batch.
C1_FullBatch ==
    (pc = "idle" /\ b >= 1) =>
        /\ Len(ret.data) = b
        /\ Len(ret.labels) = b
        /\ Len(batch) = b

\* a call for MaxBatch samples has returned in multi-worker mode
C1_Witness ==
    /\ workers > 1
    /\ pc = "idle"
    /\ b = MaxBatch
    /\ Len(ret.data) = MaxBatch

\* a call for MaxBatch samples has returned in single-worker mode
C1_WitnessSingle ==
    /\ workers = 1
    /\ pc = "idle"
    /\ b = MaxBatch
    /\ Len(ret.data) = MaxBatch

\* C2: in single-worker mode the cursor is inside [0, len(entities)) at the
\* start and at the end of every call of next(), and a call whose cursor
\* reaches the end reshuffles, resets the cursor and goes on instead of
\* failing.
C2_CursorInRange ==
    (workers = 1 /\ pc \in {"idle", "failed"}) =>
        /\ 0 <= list_pointer
        /\ list_pointer < Len(entities)
        /\ err \notin {"NameError", "IndexError"}

\* C3: in single-worker mode with no controllers and no failing entity, the
\* calls of next() for b >= 1 samples all return, and the entities sampled
\* form epochs: no entity is sampled twice within the same n samples.
C3_EpochCoverage ==
    (workers = 1 /\ controllers = << >> /\ bad = {} /\ b >= 1) =>
        /\ pc # "failed"
        /\ \A i, j \in 1..Len(drawn) :
              (i # j /\ (i - 1) \div Len(entities) = (j - 1) \div Len(entities))
                  => drawn[i] # drawn[j]

\* C4: in multi-worker mode the filler never leaves its loop: it is at the
\* loop test or at (possibly blocked on) the put into the entity queue.
C4_FillerNeverTerminates ==
    workers > 1 => f_pc \in {"check", "put"}

\* C5: the entities the filler pushes form epochs: within an epoch no entity
\* is pushed twice and the pushes follow the epoch's shuffled order, every
\* completed epoch pushed every entity of the store exactly once, and the
\* cursor counts the pushes of the running epoch, so that it is reset (with a
\* reshuffle) exactly when an epoch is complete.
C5_ProducerEpochs ==
    workers > 1 =>
        /\ f_epoch_ok
        /\ NoDuplicates(f_pushed)
        /\ Len(f_pushed) = f_ptr
        /\ f_ptr < Len(f_entities)
        /\ \A i \in 1..Len(f_pushed) : f_pushed[i] = f_entities[i]
        /\ Range(f_entities) = Range(entities)
        /\ Len(f_entities) = Len(entities)

\* the filler completed an epoch and is pushing the next one
C5_Witness ==
    /\ workers > 1
    /\ f_epochs >= 1
    /\ Len(f_pushed) >= 1

\* C8: a sample the controller chain rejected is never put into the sample
\* queue and never batched: what is queued or batched is never the reject
\* value and is what the chain returns for its entity; with a controller
\* that always returns false nothing is queued and no call of next() returns.
C8_NoRejectedBatched ==
    /\ \A s \in InFlight :
          /\ s # PyFalse
          /\ s.tag = "sample"
          /\ Materialize(s.d, bad, controllers).out = s
    /\ \A i \in 1..Len(ret.data) :
          Materialize(ret.data[i], bad, controllers).out
              = Sample(ret.data[i], ret.labels[i])
    /\ "reject" \in Range(controllers) =>
          /\ InFlight = {}
          /\ ret = Transpose(<< >>)
          /\ pc # "idle" \/ b = 0

\* a full batch was returned under a chain that rejects the odd entities
C8_Witness ==
    /\ controllers = <<"reject_odd">>
    /\ pc = "idle"
    /\ Len(ret.data) = MaxBatch

\* C9: when get_sample or a controller raises for an entity, the exception
\* is caught: it never reaches the caller of next() and never ends a sample
\* worker, nothing of that entity is batched or queued, the single-worker
\* cursor has advanced by one for every entity sampled, and the call goes on
\* with the next entity of the list: the iteration of a failing entity does
\* not end the call.
C9_SampleFailureContained ==
    /\ err # "SampleError"
    /\ \A w \in DOMAIN w_pc : w_pc[w] # "crashed"
    /\ \A s \in InFlight : ~Materialize(s.d, bad, controllers).raised
    /\ workers = 1 => list_pointer = Len(drawn)
    /\ (workers = 1 /\ last.outcome = "raised" /\ list_pointer < Len(entities))
          => pc = "loop"

\* C10: in single-worker mode, for every sample accepted into the batch, the
\* raw data of the entity just sampled is cleared if the memory measured at
\* that moment is above max_mem_percent and retained if it is not, and the
\* raw data of no other entity changes.
C10_EvictionOnAccept ==
    (workers = 1 /\ last.outcome = "accepted") =>
        /\ data[last.e] = ~(last.mem > max_mem_percent)
        /\ last.others = {}

\* samples held by a sample worker that is at its put
HeldByWorkers == { w \in DOMAIN w_pc : w_pc[w] = "put" }

\* C11: in multi-worker mode with queue_size = q and W sample workers the
\* entity queue never holds more than q entities and the sample queue never
\* more than q samples, so that at most 2*q + W items are in flight (queued
\* entities, items held by a worker, queued samples): a put into a full
\* queue blocks.
C11_BackPressure ==
    workers > 1 =>
        /\ Len(entity_queue) <= queue_size
        /\ Len(sample_queue) <= queue_size
        /\ Len(entity_queue) + Cardinality(HeldByWorkers) + Len(sample_queue)
              <= 2 * queue_size + workers

\* both queues are full and every sample worker is blocked at its put
C11_Witness ==
    /\ workers > 1
    /\ Len(entity_queue) = queue_size
    /\ Len(sample_queue) = queue_size
    /\ Cardinality(HeldByWorkers) = workers

\* C15: in multi-worker mode, when next() batches a sample pulled from the
\* sample queue while the memory measured is above max_mem_percent, the
\* entity whose raw data is released is the entity that produced the sample.
C15_EvictsOwner ==
    (workers > 1 /\ last.outcome = "accepted" /\ OverMemory(last.mem)) =>
        last.released = last.e

\* C16: in multi-worker mode no step of a call of next() changes the cursor
\* or the entity list of the caller, and next() samples no entity inline;
\* the cursor and the list of the filler change only in the filler's put
\* step; a step of the filler or of a sample worker changes nothing of the
\* caller, and a step of the caller changes nothing of the filler and the
\* workers: they share the two queues only.
C16_CursorOwnership ==
    [][workers > 1 =>
          /\ (pc = "loop" \/ pc' = "loop") =>
                (list_pointer' = list_pointer /\ entities' = entities)
          /\ list_pointer' = 0
          /\ drawn' = << >>
          /\ (f_ptr' # f_ptr \/ f_entities' # f_entities) => f_pc = "put"
          /\ (filler_vars' # filler_vars \/ worker_vars' # worker_vars)
                => UNCHANGED caller_vars
          /\ caller_vars' # caller_vars
                => UNCHANGED << filler_vars, worker_vars, entity_queue >>]_vars

\* a multi-worker call returned a full batch after the filler had finished
\* an epoch, reshuffled and moved its own cursor on
C16_Witness ==
    /\ workers > 1
    /\ pc = "idle"
    /\ Len(ret.data) = MaxBatch
    /\ f_epochs >= 1
    /\ f_ptr >= 1
    /\ list_pointer = 0

\* C17: with several workers, a chain that accepts every sample and no
\* failing entity, a running call of next() is never stuck for good: while
\* its batch is incomplete a sample is queued, or a worker holds one, or an
\* entity is queued, or the filler is still in its loop.
C17_CallNeverStuck ==
    (workers > 1 /\ controllers = << >> /\ bad = {}
        /\ pc = "loop" /\ BatchIncomplete(batch, b)) =>
        \/ sample_queue # << >>
        \/ HeldByWorkers # {}
        \/ entity_queue # << >>
        \/ f_pc \in {"check", "put"}

(***************************************************************************)
(* Properties of the chain model.                                          *)
(***************************************************************************)
\* the current sample value after the first k invoked controllers
RECURSIVE CurrentAfter(_, _, _)
CurrentAfter(calls, k, s0) ==
    IF k = 0 THEN s0
    ELSE IF calls[k].ret = PyTrue
         THEN CurrentAfter(calls, k - 1, s0)
         ELSE calls[k].ret

\* C7: process_sample invokes the controllers in list order, each on the
\* current sample value; a return of true keeps the value and any other
\* value replaces it; after a controller returned false the result is the
\* rejection and no later controller is invoked; an empty chain returns the
\* sample unchanged.
C7_ChainStateMachine ==
    ch_pc = "done" =>
        LET calls == ch_result.calls
            n == Len(calls)
            stopped == n > 0 /\ calls[n].ret \in {PyFalse, Raised}
        IN  /\ n <= Len(controllers)
            /\ \A k \in 1..n :
                  /\ calls[k].i = k
                  /\ calls[k].arg = CurrentAfter(calls, k - 1, ch_sample)
                  /\ calls[k].ret = Controller(controllers[k], calls[k].arg)
                  /\ k < n => calls[k].ret \notin {PyFalse, Raised}
            /\ (n > 0 /\ calls[n].ret = PyFalse) => ch_result.out = PyFalse
            /\ ~stopped =>
                  /\ n = Len(controllers)
                  /\ ch_result.out = CurrentAfter(calls, n, ch_sample)
                  /\ ~ch_result.raised
            /\ controllers = << >> => ch_result.out = ch_sample

\* a chain whose first controller replaced the sample and whose second
\* rejected it, with a third that was never invoked
C7_Witness ==
    /\ ch_pc = "done"
    /\ Len(controllers) > Len(ch_result.calls)
    /\ Len(ch_result.calls) >= 2
    /\ ch_result.calls[1].ret.tag = "sample"
    /\ ch_result.out = PyFalse

(***************************************************************************)
(* Properties of the split model.                                          *)
(***************************************************************************)
\* C6: split returns two stores whose entity sets are disjoint and together
\* are the entity set of the store given, no entity twice, and the first
\* store holds floor(len * split_percent) entities.
C6_SplitPartitions ==
    sp_pc = "done" =>
        LET n == Len(ds.entities)
            m == Len(ds1.entities)
        IN  /\ Range(ds1.entities) \cap Range(ds2.entities) = {}
            /\ Range(ds1.entities) \cup Range(ds2.entities) = Range(ds.entities)
            /\ NoDuplicates(ds1.entities \o ds2.entities)
            /\ m * PercentDen <= n * split_percent
            /\ (m + 1) * PercentDen > n * split_percent

\* a split into two non-empty stores where len * split_percent is no integer
C6_Witness ==
    /\ sp_pc = "done"
    /\ ds1.entities # << >>
    /\ ds2.entities # << >>
    /\ (Len(ds.entities) * split_percent) % PercentDen # 0

\* C19: when split is applied to a single-worker store whose cursor is inside
\* [0, len), as the calls of next() that returned leave it, each of the two
\* stores returned that is not empty has its cursor inside [0, len) of its
\* own entity list.
C19_CursorSurvivesSplit ==
    (sp_pc = "done" /\ ds.list_pointer < Len(ds.entities)) =>
        \A s \in {ds1, ds2} :
            s.entities # << >> =>
                /\ 0 <= s.list_pointer
                /\ s.list_pointer < Len(s.entities)

(***************************************************************************)
(* Properties of the id model.                                             *)
(***************************************************************************)
\* C13: when T.filter_ids is called on the id list written by S.save_ids,
\* S holding entities of T, the call returns and leaves T with exactly the
\* ids of S: the entities of T whose id S holds, in the order they had.
C13_RoundTrip ==
    /\ fi_pc # "TypeError"
    /\ fi_pc = "done" =>
          /\ Range(fi_t.entities) = Range(fi_s)
          /\ NoDuplicates(fi_t.entities)
          /\ Len(fi_t.entities) = Len(fi_s)

(***************************************************************************)
(* Properties of the construction model.                                   *)
(***************************************************************************)
\* the entities left after loading and prefiltering
RECURSIVE Kept(_, _, _)
Kept(pfs, i, ids) ==
    IF i > Len(pfs) THEN ids
    ELSE Kept(pfs, i + 1, { e \in ids : Prefilter(pfs[i], e) })

\* the four configuration errors
ConfigurationError(a) ==
    \/ ~a.controllers_is_list
    \/ ~a.prefilters_is_list
    \/ a.workers <= 0
    \/ (a.workers = 1 /\ a.queue_size # None)
    \/ Kept(a.prefilters, 1, Range(Loaded(a.retrieval, a.listed))) = {}

\* C14: construction fails with an error and yields no data source when
\* controllers or prefilters is no list, workers <= 0, queue_size is given
\* with one worker, or no entity is left after loading and prefiltering; in
\* every other case it succeeds with a non-empty store whose cursor is 0.
C14_ConstructionOutcome ==
    co_pc \notin {"off", "ready"} =>
        IF ConfigurationError(co_args)
        THEN co_pc # "ok" /\ co_obj = NoObject
        ELSE /\ co_pc = "ok"
             /\ co_obj.entities # << >>
             /\ co_obj.list_pointer = 0

\* C20: when construction fails, no filler and no sample worker has been
\* started.
C20_FailureStartsNothing ==
    co_pc \notin {"off", "ready", "ok"} => co_started = NoneStarted

(***************************************************************************)
(* Properties of the + model.                                              *)
(***************************************************************************)
\* C12: a + b returns a union whose member list is [a, b]; a + u, u a union
\* of m1..mk, does not fail, puts nothing but data sources into a member
\* list, and the union it returns has exactly the members m1..mk and a; with
\* any other right operand + fails and builds no union.
C12_AddResult ==
    /\ (ad_other = "datasource" /\ ad_pc \notin {"off", "ready"}) =>
          /\ ad_pc = "done"
          /\ ad_result = << "self", "other" >>
    /\ (ad_other = "other" /\ ad_pc \notin {"off", "ready"}) =>
          /\ ad_pc = "failed"
          /\ ad_result = << >>
    /\ ad_other = "union" =>
          /\ ad_pc # "failed"
          /\ "batch" \notin Range(ad_dss)
          /\ ad_pc = "done" =>
                \E k \in 1..MaxMembers : ad_result = Append(Members(k), "self")

(***************************************************************************)
(* Properties of the split of a live store.                                *)
(***************************************************************************)
\* C18: after a split, with one worker and with several, every sample in the
\* batch of a call of next() on one of the two stores was produced by an
\* entity of that store.
C18_SplitIsolation ==
    (sh_pc = "split" /\ pc = "loop") =>
        \A s \in Range(batch) : s.d \in Range(entities)

====
